---- MODULE Spec2Model ----
(***************************************************************************)
(* scpTsunamiB.py: chunked swarm distribution of one file from an origin   *)
(* host to a set of target hosts.                                          *)
(*                                                                         *)
(* Threads of the program and their model:                                 *)
(*   main thread      main() calling initiateTransfers(): mainPC           *)
(*   splitter thread  split_file(): splitPC                                *)
(*   Transfer threads one per started transfer: the records of threadlist  *)
(*   CommandQueue     the consumer thread of cat/rm commands: cqPC         *)
(*   child processes  the cat/rm children the consumer launched: children  *)
(*                                                                         *)
(* The program takes no lock around getTransfer, around the scheduler's    *)
(* chunks_needed.remove or around the worker's chunks_owned.append and     *)
(* completion test; only getSlot, freeSlot, setDead, hostDone and          *)
(* incDeadHosts lock (failcount's two methods lock too, and nothing calls   *)
(* them).  Each action below is one stretch of a thread's code between two *)
(* points where another thread may run and see a difference; a             *)
(* lock.acquire() is a step of its own, and a lock is held by the thread   *)
(* that lists it among the locks it acquired.                              *)
(***************************************************************************)
EXTENDS Integers, Sequences, FiniteSets, Bags, TLC

\* ---------------------------------------------------------------- bounds
\* hosts besides the origin (len(targetlist))
NumTargets == 1
\* chunks the split child can emit at most
MaxChunks == 2
\* -t: max_transfers_per_host
max_transfers_per_host == 2
\* max_threads (capacity of threadsema)
max_threads == 2
\* max_procs (capacity of procsema)
max_procs == 1
\* the match scenario: its targets and the chunks the origin owns
MatchTargets == 3
MatchChunks == 6

roothost == 0
Chunks == 1 .. MaxChunks

VARIABLES
    \* Host fields, one function over Hosts each
    transferslots, chunks_needed, chunks_owned, alive, chunk_index, failcount,
    \* Database fields; hostcount is len(hostlist), fixed once main() has
    \* built the host list
    hostcount, hosts_with_file, deadhosts, tindex, chunkCount, split_complete,
    \* split_file thread
    splitPC,
    \* main thread: position, the targets the getTransfer call in progress
    \* has tried (its loop variable q), and the triple it is returning
    mainPC, q, match,
    \* Transfer threads alive (threadlist, a bag: two threads may be at the same
    \* place with the same triple; a record has the triple, the thread's
    \* position and the locks it holds) and the permits left in threadsema
    threadlist, threadsema,
    \* CommandQueue: cmdq, procs, procsema, flag; its thread's position and
    \* the command it holds; activeprocs of a free() call in progress, per caller
    cmdq, procs, procsema, flag, cqPC, cqCmd, activeprocs,
    \* every child the consumer launched: <<command, exited>> in launch order
    children

hostVars ==
    <<transferslots, chunks_needed, chunks_owned, alive, chunk_index, failcount>>
dbVars ==
    <<hostcount, hosts_with_file, deadhosts, tindex, chunkCount, split_complete>>
cqVars == <<cmdq, procs, procsema, flag, cqPC, cqCmd, activeprocs, children>>
vars ==
    <<hostVars, dbVars, splitPC, mainPC, q, match, threadlist, threadsema, cqVars>>

\* hostlist: the origin at index 0, then the targets
Hosts == 0 .. (hostcount - 1)

NoMatch == [seed |-> -1, target |-> -1, chunk |-> 0]
NoCmd == [kind |-> "none", host |-> -1]

\* ------------------------------------------------------------ sequences
Contains(s, x) == \E i \in 1 .. Len(s) : s[i] = x

\* list.insert(pos, x): a position past the end appends
InsertAt(s, pos, x) ==
    LET p == IF pos > Len(s) THEN Len(s) ELSE pos
    IN  SubSeq(s, 1, p) \o <<x>> \o SubSeq(s, p + 1, Len(s))

\* mutant: the remove is forgotten
RemoveFirst_Kept(s, x) == s

\* list.remove(x): drops the first occurrence
RemoveFirst(s, x) ==
    LET i == CHOOSE j \in 1 .. Len(s) :
                 s[j] = x /\ \A k \in 1 .. (j - 1) : s[k] # x
    IN  SubSeq(s, 1, i - 1) \o SubSeq(s, i + 1, Len(s))

\* ----------------------------------------------------------------- Init
Init ==
    /\ hostcount \in 1 .. (NumTargets + 1)
    /\ transferslots = [h \in Hosts |-> max_transfers_per_host]
    /\ chunks_needed = [h \in Hosts |-> << >>]
    /\ chunks_owned = [h \in Hosts |-> << >>]
    /\ alive = [h \in Hosts |-> TRUE]
    /\ chunk_index = [h \in Hosts |-> 0]
    /\ failcount = [h \in Hosts |-> 0]
    /\ hosts_with_file = 1
    /\ deadhosts = 0
    /\ tindex = 0
    /\ chunkCount = 0
    /\ split_complete = FALSE
    /\ splitPC = "produce"
    /\ mainPC = "loop"
    /\ q = 0
    /\ match = NoMatch
    /\ threadlist = EmptyBag
    /\ threadsema = max_threads
    /\ cmdq = << >>
    /\ procs = << >>
    /\ procsema = max_procs
    /\ flag = FALSE
    /\ cqPC = "get"
    /\ cqCmd = NoCmd
    /\ activeprocs = [t \in {"main", "cq"} |-> << >>]
    /\ children = << >>

\* ------------------------------------------------------------------ Host
\* Host.getSlot: the decrement is unconditional
getSlot(slots, h) == [slots EXCEPT ![h] = @ - 1]

\* mutant: the slot count is reset instead of incremented
freeSlot_Reset(slots, h) == [slots EXCEPT ![h] = max_transfers_per_host]

\* Host.freeSlot
freeSlot(slots, h) == [slots EXCEPT ![h] = @ + 1]

\* Host.setDead, line 384 and 386: the fields it writes when the host was
\* alive
setDeadAlive(h) == [alive EXCEPT ![h] = FALSE]
setDeadSlots(slots, h) == [slots EXCEPT ![h] = 0]

\* -------------------------------------------------------------- Database
\* Database.hostDone
hostDone(n) == n + 1

\* Database.incDeadHosts
incDeadHosts(n) == n + 1

\* getTransfer, line 430-431: the target test
TargetOk(t) == transferslots[t] > 0 /\ alive[t]

\* mutant: the seed test does not ask for the chunk
SeedOk_AnyHost(s, chunk) == transferslots[s] > 0 /\ alive[s]

\* getTransfer, line 443-445: the seed test
SeedOk(s, chunk) ==
    /\ Contains(chunks_owned[s], chunk)
    /\ transferslots[s] > 0
    /\ alive[s]

\* mutant: the seed loop runs hostcount - 1 times
SeedScan_Short(chunk, r) ==
    LET at(i) == (r - i + 2 * hostcount) % hostcount
        hits == {i \in 1 .. (hostcount - 1) : SeedOk(at(i), chunk)}
    IN  IF hits = {} THEN -1
        ELSE at(CHOOSE i \in hits : \A j \in hits : i <= j)

\* getTransfer, line 437-449: from the random start r the scan steps sindex
\* down by one, hostcount times; the first host passing the seed test, or -1
SeedScan(chunk, r) ==
    LET at(i) == (r - i + 2 * hostcount) % hostcount
        hits == {i \in 1 .. hostcount : SeedOk(at(i), chunk)}
    IN  IF hits = {} THEN -1
        ELSE at(CHOOSE i \in hits : \A j \in hits : i <= j)

\* getTransfer, line 433: the first chunk of the target's chunks_needed, in
\* list order, for which the seed scan finds a seed; 0 when there is none
FirstChunk(t, r) ==
    LET need == chunks_needed[t]
        hits == {i \in 1 .. Len(need) : SeedScan(need[i], r) # -1}
    IN  IF hits = {} THEN 0
        ELSE need[CHOOSE i \in hits : \A j \in hits : i <= j]

\* getTransfer, line 430-449, for one target t: the triple the loops over the
\* target's chunks_needed and over the seeds find, or NoMatch
tryTarget(t, r) ==
    IF TargetOk(t) /\ FirstChunk(t, r) # 0
    THEN [seed |-> SeedScan(FirstChunk(t, r), r), target |-> t,
          chunk |-> FirstChunk(t, r)]
    ELSE NoMatch

\* getTransfer, line 426-451, run against one state of the hosts: tindex
\* advances by one per tried target; the result is the triple of the first
\* target that yields one, and the value tindex is left at
getTransfer(r) ==
    LET at(i) == (tindex + i) % hostcount
        hits == {i \in 1 .. hostcount : tryTarget(at(i), r).chunk # 0}
    IN  IF hits = {}
        THEN [seed |-> -1, target |-> -1, chunk |-> 0,
              tindex |-> (tindex + hostcount) % hostcount]
        ELSE LET i == CHOOSE j \in hits : \A k \in hits : j <= k
                 res == tryTarget(at(i), r)
             IN  [seed |-> res.seed, target |-> res.target,
                  chunk |-> res.chunk, tindex |-> at(i)]

\* mutant: the origin is not skipped
UpdatedHosts_All == Hosts

\* update_chunks_needed, line 458: the hosts it updates
UpdatedHosts == Hosts \ {roothost}

\* update_chunks_needed, line 462-464: each new chunk goes to a random
\* position, random.randint(0, len(chunks_needed)+1); p[i] is the i-th draw
RECURSIVE InsertAll(_, _, _)
InsertAll(need, new, p) ==
    IF new = << >> THEN need
    ELSE InsertAll(InsertAt(need, Head(p), Head(new)), Tail(new), Tail(p))

\* the draws p are in range for n inserts into a list of length len; the
\* entries of p past the n-th stand for no draw and are 0
RECURSIVE DrawsOk(_, _, _)
DrawsOk(len, n, p) ==
    IF n = 0 THEN \A i \in 1 .. Len(p) : p[i] = 0
    ELSE Head(p) <= len + 1 /\ DrawsOk(len + 1, n - 1, Tail(p))

\* mutant: the slice starts one chunk late
NewChunks_Late(h) ==
    IF chunk_index[h] < chunkCount
    THEN SubSeq(chunks_owned[roothost], chunk_index[h] + 2,
                Len(chunks_owned[roothost]))
    ELSE << >>

\* mutant: the slice from chunk_index is forgotten
NewChunks_All(h) ==
    IF chunk_index[h] < chunkCount THEN chunks_owned[roothost] ELSE << >>

\* update_chunks_needed, line 459-460
NewChunks(h) ==
    IF chunk_index[h] < chunkCount
    THEN SubSeq(chunks_owned[roothost], chunk_index[h] + 1,
                Len(chunks_owned[roothost]))
    ELSE << >>

\* -------------------------------------------------------------- split_file
\* line 589-590: the next chunk joins the origin's chunks_owned
SplitProduce ==
    /\ splitPC = "produce"
    /\ chunkCount < MaxChunks
    /\ chunks_owned' = [chunks_owned EXCEPT
                           ![roothost] = Append(@, Len(@) + 1)]
    /\ chunkCount' = chunkCount + 1
    /\ splitPC' = "update"
    /\ UNCHANGED <<transferslots, chunks_needed, alive, chunk_index, failcount,
                   hosts_with_file, deadhosts, hostcount, tindex, split_complete,
                   mainPC, q, match, threadlist, threadsema, cqVars>>

\* line 591-592: update_chunks_needed, then the loop goes on if split printed
\* another name
SplitUpdate ==
    /\ splitPC = "update"
    /\ \E p \in [Hosts -> [1 .. MaxChunks -> 0 .. (MaxChunks + 1)]] :
          /\ \A h \in UpdatedHosts :
                DrawsOk(Len(chunks_needed[h]), Len(NewChunks(h)), p[h])
          /\ chunks_needed' =
                [h \in Hosts |->
                    IF h \in UpdatedHosts
                    THEN InsertAll(chunks_needed[h], NewChunks(h), p[h])
                    ELSE chunks_needed[h]]
    /\ chunk_index' =
          [h \in Hosts |->
              IF h \in UpdatedHosts
              THEN chunk_index[h] + Len(NewChunks(h))
              ELSE chunk_index[h]]
    /\ \E more \in BOOLEAN :
          /\ more => chunkCount < MaxChunks
          /\ splitPC' = IF more THEN "produce" ELSE "finish"
    /\ UNCHANGED <<transferslots, chunks_owned, alive, failcount, dbVars, mainPC, q,
                   match, threadlist, threadsema, cqVars>>

\* line 595
SplitFinish ==
    /\ splitPC = "finish"
    /\ split_complete' = TRUE
    /\ splitPC' = "done"
    /\ UNCHANGED <<hostVars, hosts_with_file, deadhosts, hostcount, tindex, chunkCount,
                   mainPC, q, match, threadlist, threadsema, cqVars>>

\* ------------------------------------------------------------------ threads
\* the Transfer threads, and one of them moving on to pc
Threads == BagToSet(threadlist)

At(w, pc) == (threadlist (-) SetToBag({w})) (+) SetToBag({[w EXCEPT !.pc = pc]})

\* how many Transfer threads are among the records S
NumThreads(S) == BagCardinality([w \in S \cap Threads |-> threadlist[w]])

\* one of them moving on to pc with the locks held
Move(w, pc, held) ==
    (threadlist (-) SetToBag({w}))
        (+) SetToBag({[w EXCEPT !.pc = pc, !.held = held]})

\* -------------------------------------------------------------------- locks
\* Database.lock (line 401); the lock of a host (line 341) goes by the host's
\* index
DBLock == -1

\* the lock the main thread holds: a host's, between the acquire and the
\* release of getSlot
mainHeld ==
    IF mainPC = "getSlotSeed" THEN <<match.seed>>
    ELSE IF mainPC = "getSlotTarget" THEN <<match.target>>
    ELSE << >>

\* threading.Lock: the lock is held by the thread that has it among the locks
\* it acquired and has not released
Locked(l) ==
    Contains(mainHeld, l) \/ \E w \in Threads : Contains(w.held, l)

\* mutant: release leaves the lock with the thread
release_Kept(held, l) == held

\* lock.release()
release(held, l) == SelectSeq(held, LAMBDA x : x # l)

\* lock.acquire() by Transfer thread w: blocks while the lock is held
acquire(w, l, pc) ==
    /\ ~Locked(l)
    /\ threadlist' = Move(w, pc, Append(w.held, l))
    /\ UNCHANGED <<hostVars, dbVars, splitPC, mainPC, q, match, threadsema,
                   cqVars>>

\* ------------------------------------------------------- initiateTransfers
\* mutant: the loop test is <= instead of <
MainLoop_Leq ==
    /\ mainPC = "loop"
    /\ mainPC' = IF hosts_with_file + deadhosts <= hostcount
                 THEN "scan" ELSE "waitThreads"
    /\ UNCHANGED <<hostVars, dbVars, splitPC, q, match, threadlist, threadsema,
                   cqVars>>

\* line 554: the loop test
MainLoop ==
    /\ mainPC = "loop"
    /\ mainPC' = IF hosts_with_file + deadhosts < hostcount
                 THEN "scan" ELSE "waitThreads"
    /\ UNCHANGED <<hostVars, dbVars, splitPC, q, match, threadlist, threadsema,
                   cqVars>>

\* line 555, getTransfer line 426-446: one round of the loop over q.  tindex
\* moves to the next host and the host is tried as a target; the Transfer
\* threads and the splitter run between two rounds (getTransfer takes no
\* lock).  After hostcount rounds without a triple the call returns None and
\* the loop sleeps (line 568) and tests again.
MainScan ==
    /\ mainPC = "scan"
    /\ \E r \in 0 .. hostcount :
          LET t == (tindex + 1) % hostcount
              res == tryTarget(t, r)
          IN  /\ tindex' = t
              /\ match' = res
              /\ mainPC' = IF res.chunk # 0 THEN "lockSeed"
                           ELSE IF q + 1 < hostcount THEN "scan" ELSE "loop"
              /\ q' = IF res.chunk = 0 /\ q + 1 < hostcount THEN q + 1 ELSE 0
    /\ UNCHANGED <<hostVars, hostcount, hosts_with_file, deadhosts, chunkCount,
                   split_complete, splitPC, threadlist, threadsema, cqVars>>

\* getTransfer line 447, getSlot line 362: the seed's lock
MainLockSeed ==
    /\ mainPC = "lockSeed"
    /\ ~Locked(match.seed)
    /\ mainPC' = "getSlotSeed"
    /\ UNCHANGED <<hostVars, dbVars, splitPC, q, match, threadlist, threadsema,
                   cqVars>>

\* getSlot line 363-364 on the seed
MainGetSlotSeed ==
    /\ mainPC = "getSlotSeed"
    /\ transferslots' = getSlot(transferslots, match.seed)
    /\ mainPC' = "lockTarget"
    /\ UNCHANGED <<chunks_needed, chunks_owned, alive, chunk_index, failcount, dbVars,
                   splitPC, q, match, threadlist, threadsema, cqVars>>

\* getTransfer line 448, getSlot line 362: the target's lock
MainLockTarget ==
    /\ mainPC = "lockTarget"
    /\ ~Locked(match.target)
    /\ mainPC' = "getSlotTarget"
    /\ UNCHANGED <<hostVars, dbVars, splitPC, q, match, threadlist, threadsema,
                   cqVars>>

\* getSlot line 363-364 on the target, and the return of line 449
MainGetSlotTarget ==
    /\ mainPC = "getSlotTarget"
    /\ transferslots' = getSlot(transferslots, match.target)
    /\ mainPC' = "acquire"
    /\ UNCHANGED <<chunks_needed, chunks_owned, alive, chunk_index, failcount, dbVars,
                   splitPC, q, match, threadlist, threadsema, cqVars>>

\* line 558: blocks while threadsema has no permit
MainAcquire ==
    /\ mainPC = "acquire"
    /\ threadsema > 0
    /\ threadsema' = threadsema - 1
    /\ mainPC' = "start"
    /\ UNCHANGED <<hostVars, dbVars, splitPC, q, match, threadlist, cqVars>>

\* line 559-564: the chunk leaves the target's chunks_needed and the Transfer
\* thread starts.  list.remove raises when the chunk is not there; main()
\* catches it (line 754) and goes on to wait for the threads.
MainStart ==
    /\ mainPC = "start"
    /\ IF Contains(chunks_needed[match.target], match.chunk)
       THEN /\ chunks_needed' =
                  [chunks_needed EXCEPT
                      ![match.target] = RemoveFirst(@, match.chunk)]
            /\ threadlist' = threadlist (+) SetToBag(
                  {[seedindex |-> match.seed, targetindex |-> match.target,
                    chunk |-> match.chunk, pc |-> "copy",
                    held |-> << >>]})
            /\ mainPC' = "loop"
       ELSE /\ UNCHANGED <<chunks_needed, threadlist>>
            /\ mainPC' = "waitThreads"
    /\ match' = NoMatch
    /\ UNCHANGED <<transferslots, chunks_owned, alive, chunk_index, failcount, dbVars,
                   splitPC, q, threadsema, cqVars>>

\* ------------------------------------------------------------ Transfer.run
\* mutant: the chunk is put back at the head
putBack_Front(need, chunk) ==
    IF Contains(need, chunk) THEN need ELSE <<chunk>> \o need

\* mutant: a failed transfer does not return its chunk
putBack_Dropped(need, chunk) == need

\* line 522-523 and 538-539: the chunk goes back to the target's
\* chunks_needed unless it is there
putBack(need, chunk) == IF Contains(need, chunk) THEN need ELSE Append(need, chunk)

\* mutant: the completion test forgets split_complete
hasAllChunks_NoSplit(t) == Len(chunks_owned[t]) = chunkCount

\* line 508-509: the completion test
hasAllChunks(t) == split_complete /\ Len(chunks_owned[t]) = chunkCount

\* line 496-506: the copy child exits 0 and the chunk joins the target's
\* chunks_owned
TransferSucceed(w) ==
    /\ w.pc = "copy"
    /\ chunks_owned' = [chunks_owned EXCEPT ![w.targetindex] = Append(@, w.chunk)]
    /\ threadlist' = At(w, "check")
    /\ UNCHANGED <<transferslots, chunks_needed, alive, chunk_index, failcount, dbVars,
                   splitPC, mainPC, q, match, threadsema, cqVars>>

\* line 508-509: the completion test
TransferCheck(w) ==
    /\ w.pc = "check"
    /\ threadlist' = At(w, IF hasAllChunks(w.targetindex)
                           THEN "lockHostDone" ELSE "lockFreeTarget")
    /\ UNCHANGED <<hostVars, dbVars, splitPC, mainPC, q, match, threadsema,
                   cqVars>>

\* line 511, hostDone line 418
TransferLockHostDone(w) ==
    /\ w.pc = "lockHostDone"
    /\ acquire(w, DBLock, "hostDone")

\* hostDone line 419-420, then line 515-518: the cat command for the target
TransferHostDone(w) ==
    /\ w.pc = "hostDone"
    /\ hosts_with_file' = hostDone(hosts_with_file)
    /\ cmdq' = Append(cmdq, [kind |-> "cat", host |-> w.targetindex])
    /\ threadlist' = Move(w, "lockFreeTarget", release(w.held, DBLock))
    /\ UNCHANGED <<hostVars, deadhosts, hostcount, tindex, chunkCount, split_complete,
                   splitPC, mainPC, q, match, threadsema, procs, procsema, flag,
                   cqPC, cqCmd, activeprocs, children>>

\* line 520-523: the copy child exits non-zero
TransferFail(w) ==
    /\ w.pc = "copy"
    /\ chunks_needed' = [chunks_needed EXCEPT
                            ![w.targetindex] = putBack(@, w.chunk)]
    /\ threadlist' = At(w, "probeTarget")
    /\ UNCHANGED <<transferslots, chunks_owned, alive, chunk_index, failcount, dbVars,
                   splitPC, mainPC, q, match, threadsema, cqVars>>

\* line 536-540: Popen raises
TransferException(w) ==
    /\ w.pc = "copy"
    /\ chunks_needed' = [chunks_needed EXCEPT
                            ![w.targetindex] = putBack(@, w.chunk)]
    /\ threadlist' = At(w, "lockFreeTarget")
    /\ UNCHANGED <<transferslots, chunks_owned, alive, chunk_index, failcount, dbVars,
                   splitPC, mainPC, q, match, threadsema, cqVars>>

\* the two probes of line 531-534: the host probed and the places of the
\* thread from its isAlive call to the statement after setDead
ProbedHost(w, which) == IF which = "target" THEN w.targetindex ELSE w.seedindex

ProbePC(which) ==
    IF which = "target"
    THEN [probe |-> "probeTarget", lock |-> "lockDeadTarget",
          dead |-> "setDeadTarget", lockDB |-> "lockIncTarget",
          inc |-> "incDeadTarget", slots |-> "endDeadTarget",
          next |-> "probeSeed"]
    ELSE [probe |-> "probeSeed", lock |-> "lockDeadSeed",
          dead |-> "setDeadSeed", lockDB |-> "lockIncSeed",
          inc |-> "incDeadSeed", slots |-> "endDeadSeed",
          next |-> "lockFreeTarget"]

\* line 531 and 533, Host.isAlive: the ssh probe answers or not
TransferProbe(w, which) ==
    /\ w.pc = ProbePC(which).probe
    /\ \E up \in BOOLEAN :
          threadlist' = At(w, IF up THEN ProbePC(which).next
                                   ELSE ProbePC(which).lock)
    /\ UNCHANGED <<hostVars, dbVars, splitPC, mainPC, q, match, threadsema,
                   cqVars>>

\* setDead line 382: the host's lock
TransferLockSetDead(w, which) ==
    /\ w.pc = ProbePC(which).lock
    /\ acquire(w, ProbedHost(w, which), ProbePC(which).dead)

\* setDead line 383-384: a host already dead is left alone (line 387)
TransferSetDead(w, which) ==
    /\ w.pc = ProbePC(which).dead
    /\ IF alive[ProbedHost(w, which)]
       THEN /\ alive' = setDeadAlive(ProbedHost(w, which))
            /\ threadlist' = At(w, ProbePC(which).lockDB)
       ELSE /\ UNCHANGED alive
            /\ threadlist' = Move(w, ProbePC(which).next,
                                  release(w.held, ProbedHost(w, which)))
    /\ UNCHANGED <<transferslots, chunks_needed, chunks_owned, chunk_index, failcount,
                   dbVars, splitPC, mainPC, q, match, threadsema, cqVars>>

\* setDead line 385, incDeadHosts line 412: the database's lock, with the
\* host's lock held
TransferLockIncDead(w, which) ==
    /\ w.pc = ProbePC(which).lockDB
    /\ acquire(w, DBLock, ProbePC(which).inc)

\* incDeadHosts line 413-414
TransferIncDead(w, which) ==
    /\ w.pc = ProbePC(which).inc
    /\ deadhosts' = incDeadHosts(deadhosts)
    /\ threadlist' = Move(w, ProbePC(which).slots, release(w.held, DBLock))
    /\ UNCHANGED <<hostVars, hostcount, hosts_with_file, tindex, chunkCount,
                   split_complete, splitPC, mainPC, q, match, threadsema, cqVars>>

\* setDead line 386-387
TransferSetDeadEnd(w, which) ==
    /\ w.pc = ProbePC(which).slots
    /\ transferslots' = setDeadSlots(transferslots, ProbedHost(w, which))
    /\ threadlist' = Move(w, ProbePC(which).next,
                          release(w.held, ProbedHost(w, which)))
    /\ UNCHANGED <<chunks_needed, chunks_owned, alive, chunk_index, failcount, dbVars,
                   splitPC, mainPC, q, match, threadsema, cqVars>>

\* line 543, freeSlot line 368: the target's lock
TransferLockFreeTarget(w) ==
    /\ w.pc = "lockFreeTarget"
    /\ acquire(w, w.targetindex, "freeTarget")

\* freeSlot line 369-370 on the target
TransferFreeTarget(w) ==
    /\ w.pc = "freeTarget"
    /\ transferslots' = freeSlot(transferslots, w.targetindex)
    /\ threadlist' = Move(w, "lockFreeSeed", release(w.held, w.targetindex))
    /\ UNCHANGED <<chunks_needed, chunks_owned, alive, chunk_index, failcount, dbVars,
                   splitPC, mainPC, q, match, threadsema, cqVars>>

\* line 544, freeSlot line 368: the seed's lock
TransferLockFreeSeed(w) ==
    /\ w.pc = "lockFreeSeed"
    /\ acquire(w, w.seedindex, "freeSeed")

\* mutant: the thread ends without returning its permit
TransferExit_NoRelease(w) ==
    /\ w.pc = "freeSeed"
    /\ transferslots' = freeSlot(transferslots, w.seedindex)
    /\ threadlist' = threadlist (-) SetToBag({w})
    /\ UNCHANGED <<chunks_needed, chunks_owned, alive, chunk_index, failcount, dbVars,
                   splitPC, mainPC, q, match, threadsema, cqVars>>

\* freeSlot line 369-370 on the seed, then line 545-546: the thread leaves
\* threadlist and returns its permit
TransferExit(w) ==
    /\ w.pc = "freeSeed"
    /\ transferslots' = freeSlot(transferslots, w.seedindex)
    /\ threadlist' = threadlist (-) SetToBag({w})
    /\ threadsema' = threadsema + 1
    /\ UNCHANGED <<chunks_needed, chunks_owned, alive, chunk_index, failcount, dbVars,
                   splitPC, mainPC, q, match, cqVars>>

\* ------------------------------------------------------------ CommandQueue
\* free, line 306-313: the tracked children still running (activeprocs)
stillRunning(ps) == SelectSeq(ps, LAMBDA i : ~children[i].exited)

\* free, line 309-311: one procsema.release() per tracked child that exited
released(ps) == Len(ps) - Len(stillRunning(ps))

\* free, line 306-313, by thread t: the loop over self.procs
freeScan(t) ==
    /\ activeprocs' = [activeprocs EXCEPT ![t] = stillRunning(procs)]
    /\ procsema' = procsema + released(procs)

\* free, line 314, by thread t: self.procs = activeprocs
freeAssign(t) ==
    /\ procs' = activeprocs[t]
    /\ activeprocs' = [activeprocs EXCEPT ![t] = << >>]

\* run, line 290: a command is taken from the queue
CQGet ==
    /\ cqPC = "get"
    /\ cmdq # << >>
    /\ cqCmd' = Head(cmdq)
    /\ cmdq' = Tail(cmdq)
    /\ cqPC' = "acquire"
    /\ UNCHANGED <<hostVars, dbVars, splitPC, mainPC, q, match, threadlist,
                   threadsema, procs, procsema, flag, activeprocs, children>>

\* run, line 290 and 298: the queue stayed empty for the timeout
CQTimeout ==
    /\ cqPC = "get"
    /\ cmdq = << >>
    /\ cqPC' = "empty"
    /\ UNCHANGED <<hostVars, dbVars, splitPC, mainPC, q, match, threadlist,
                   threadsema, cmdq, procs, procsema, flag, cqCmd,
                   activeprocs, children>>

\* run, line 299-300: after the timeout the flag decides
CQCheckFlag ==
    /\ cqPC = "empty"
    /\ cqPC' = IF flag THEN "wait" ELSE "get"
    /\ UNCHANGED <<hostVars, dbVars, splitPC, mainPC, q, match, threadlist,
                   threadsema, cmdq, procs, procsema, flag, cqCmd,
                   activeprocs, children>>

\* run, line 291-297: a permit is there; the child starts and is tracked
CQLaunch ==
    /\ cqPC = "acquire"
    /\ procsema > 0
    /\ procsema' = procsema - 1
    /\ children' = Append(children, [cmd |-> cqCmd, exited |-> FALSE])
    /\ procs' = Append(procs, Len(children) + 1)
    /\ cqCmd' = NoCmd
    /\ cqPC' = "get"
    /\ UNCHANGED <<hostVars, dbVars, splitPC, mainPC, q, match, threadlist,
                   threadsema, cmdq, flag, activeprocs>>

\* run, line 291-294: no permit; free() looks for children that exited
CQFull ==
    /\ cqPC = "acquire"
    /\ procsema = 0
    /\ freeScan("cq")
    /\ cqPC' = "acquireAssign"
    /\ UNCHANGED <<hostVars, dbVars, splitPC, mainPC, q, match, threadlist,
                   threadsema, cmdq, procs, flag, cqCmd, children>>

CQFullAssign ==
    /\ cqPC = "acquireAssign"
    /\ freeAssign("cq")
    /\ cqPC' = "acquire"
    /\ UNCHANGED <<hostVars, dbVars, splitPC, mainPC, q, match, threadlist,
                   threadsema, cmdq, procsema, flag, cqCmd, children>>

\* run, line 302, wait_for_procs line 320-322
CQWait ==
    /\ cqPC = "wait"
    /\ IF procs = << >>
       THEN /\ cqPC' = "done"
            /\ UNCHANGED <<activeprocs, procsema>>
       ELSE /\ freeScan("cq")
            /\ cqPC' = "waitAssign"
    /\ UNCHANGED <<hostVars, dbVars, splitPC, mainPC, q, match, threadlist,
                   threadsema, cmdq, procs, flag, cqCmd, children>>

CQWaitAssign ==
    /\ cqPC = "waitAssign"
    /\ freeAssign("cq")
    /\ cqPC' = "wait"
    /\ UNCHANGED <<hostVars, dbVars, splitPC, mainPC, q, match, threadlist,
                   threadsema, cmdq, procsema, flag, cqCmd, children>>

\* a cat or rm child exits
ChildExit(i) ==
    /\ ~children[i].exited
    /\ children' = [children EXCEPT ![i].exited = TRUE]
    /\ UNCHANGED <<hostVars, dbVars, splitPC, mainPC, q, match, threadlist,
                   threadsema, cmdq, procs, procsema, flag, cqPC, cqCmd,
                   activeprocs>>

\* -------------------------------------------------------------------- main
\* the rm command of every host of hostlist, in list order (line 767-770)
RECURSIVE rmCmds(_)
rmCmds(h) ==
    IF h >= hostcount THEN << >>
    ELSE <<[kind |-> "rm", host |-> h]>> \o rmCmds(h + 1)

\* line 571-572 and 760-764: every Transfer thread has left threadlist; then
\* options.cleanup (-p clears it) decides
MainWaitThreads ==
    /\ mainPC = "waitThreads"
    /\ threadlist = EmptyBag
    /\ \E cleanup \in BOOLEAN :
          mainPC' = IF cleanup THEN "waitProcs" ELSE "finish"
    /\ UNCHANGED <<hostVars, dbVars, splitPC, q, match, threadlist, threadsema,
                   cqVars>>

\* line 766, wait_for_procs line 320-322, called by the main thread
MainWaitProcs ==
    /\ mainPC = "waitProcs"
    /\ IF procs = << >>
       THEN /\ mainPC' = "rm"
            /\ UNCHANGED <<activeprocs, procsema>>
       ELSE /\ freeScan("main")
            /\ mainPC' = "waitAssign"
    /\ UNCHANGED <<hostVars, dbVars, splitPC, q, match, threadlist, threadsema,
                   cmdq, procs, flag, cqPC, cqCmd, children>>

MainWaitAssign ==
    /\ mainPC = "waitAssign"
    /\ freeAssign("main")
    /\ mainPC' = "waitProcs"
    /\ UNCHANGED <<hostVars, dbVars, splitPC, q, match, threadlist, threadsema,
                   cmdq, procsema, flag, cqPC, cqCmd, children>>

\* line 767-770
MainRm ==
    /\ mainPC = "rm"
    /\ cmdq' = cmdq \o rmCmds(0)
    /\ mainPC' = "finish"
    /\ UNCHANGED <<hostVars, dbVars, splitPC, q, match, threadlist, threadsema,
                   procs, procsema, flag, cqPC, cqCmd, activeprocs, children>>

\* line 773
MainFinish ==
    /\ mainPC = "finish"
    /\ flag' = TRUE
    /\ mainPC' = "join"
    /\ UNCHANGED <<hostVars, dbVars, splitPC, q, match, threadlist, threadsema,
                   cmdq, procs, procsema, cqPC, cqCmd, activeprocs, children>>

\* line 774-775
MainJoin ==
    /\ mainPC = "join"
    /\ cqPC = "done"
    /\ mainPC' = "done"
    /\ UNCHANGED <<hostVars, dbVars, splitPC, q, match, threadlist, threadsema,
                   cqVars>>

\* -------------------------------------------------------------------- Next
Splitter == SplitProduce \/ SplitUpdate \/ SplitFinish

Scheduler ==
    \/ MainLoop \/ MainScan \/ MainLockSeed \/ MainGetSlotSeed
    \/ MainLockTarget \/ MainGetSlotTarget \/ MainAcquire \/ MainStart

Workers ==
    \/ \E w \in Threads : TransferSucceed(w)
    \/ \E w \in Threads : TransferCheck(w)
    \/ \E w \in Threads : TransferLockHostDone(w)
    \/ \E w \in Threads : TransferHostDone(w)
    \/ \E w \in Threads : TransferFail(w)
    \/ \E w \in Threads : TransferException(w)
    \/ \E w \in Threads : \E which \in {"target", "seed"} :
          \/ TransferProbe(w, which)
          \/ TransferLockSetDead(w, which)
          \/ TransferSetDead(w, which)
          \/ TransferLockIncDead(w, which)
          \/ TransferIncDead(w, which)
          \/ TransferSetDeadEnd(w, which)
    \/ \E w \in Threads : TransferLockFreeTarget(w)
    \/ \E w \in Threads : TransferFreeTarget(w)
    \/ \E w \in Threads : TransferLockFreeSeed(w)
    \/ \E w \in Threads : TransferExit(w)

Finalizer ==
    \/ MainWaitThreads \/ MainWaitProcs \/ MainWaitAssign \/ MainRm
    \/ MainFinish \/ MainJoin

Consumer ==
    \/ CQGet \/ CQTimeout \/ CQCheckFlag \/ CQLaunch \/ CQFull
    \/ CQFullAssign \/ CQWait \/ CQWaitAssign

Next ==
    \/ Splitter
    \/ Scheduler
    \/ Workers
    \/ Finalizer
    \/ Consumer
    \/ \E i \in DOMAIN children : ChildExit(i)

Spec == Init /\ [][Next]_vars

\* the steps of a Transfer thread whose copy child exits 0: up to the
\* completion test and from freeSlot on
WorkersDeliver ==
    \/ \E w \in Threads : TransferSucceed(w)
    \/ \E w \in Threads : TransferCheck(w)
    \/ \E w \in Threads : TransferLockFreeTarget(w)
    \/ \E w \in Threads : TransferFreeTarget(w)
    \/ \E w \in Threads : TransferLockFreeSeed(w)
    \/ \E w \in Threads : TransferExit(w)

\* and its hostDone call with the cat command
WorkersHostDone ==
    \/ \E w \in Threads : TransferLockHostDone(w)
    \/ \E w \in Threads : TransferHostDone(w)

\* Runs in which every copy child exits 0 (so no host is probed or marked
\* dead), with every thread of the program scheduled again and again: the
\* splitter, the main thread, the Transfer threads and the consumer are OS
\* threads, and none waits for another except at a lock, at threadsema, at
\* the queue and in main's final loops.
WorkersNoFail == WorkersDeliver \/ WorkersHostDone

NextNoFail ==
    \/ Splitter
    \/ Scheduler
    \/ WorkersNoFail
    \/ Finalizer
    \/ Consumer
    \/ \E i \in DOMAIN children : ChildExit(i)

FairNoFailSpec ==
    /\ Init
    /\ [][NextNoFail]_vars
    /\ WF_vars(Splitter)
    /\ WF_vars(Scheduler)
    /\ WF_vars(WorkersNoFail)
    /\ WF_vars(Finalizer)
    /\ WF_vars(Consumer)

\* ------------------------------------------------------ the match scenario
\* The program at the moment split_file has finished and initiateTransfers
\* has not called getTransfer yet, started with -t 1 and MatchTargets targets
\* for a file of MatchChunks chunks.  update_chunks_needed has inserted the
\* chunks at random positions; of the orders this can leave in a target's
\* chunks_needed the scenario takes the ascending and the descending one.
MatchOrders ==
    {[i \in 1 .. MatchChunks |-> i],
     [i \in 1 .. MatchChunks |-> MatchChunks + 1 - i]}

InitMatch ==
    /\ hostcount = MatchTargets + 1
    /\ transferslots = [h \in Hosts |-> 1]
    /\ chunks_needed \in
          {f \in [Hosts -> MatchOrders \cup {<< >>}] :
              \A h \in Hosts : (f[h] = << >>) <=> (h = roothost)}
    /\ chunks_owned =
          [h \in Hosts |->
              IF h = roothost THEN [i \in 1 .. MatchChunks |-> i] ELSE << >>]
    /\ alive = [h \in Hosts |-> TRUE]
    /\ chunk_index = [h \in Hosts |-> IF h = roothost THEN 0 ELSE MatchChunks]
    /\ failcount = [h \in Hosts |-> 0]
    /\ hosts_with_file = 1
    /\ deadhosts = 0
    /\ tindex = 0
    /\ chunkCount = MatchChunks
    /\ split_complete = TRUE
    /\ splitPC = "done"
    /\ mainPC = "loop"
    /\ q = 0
    /\ match = NoMatch
    /\ threadlist = EmptyBag
    /\ threadsema = max_threads
    /\ cmdq = << >>
    /\ procs = << >>
    /\ procsema = max_procs
    /\ flag = FALSE
    /\ cqPC = "get"
    /\ cqCmd = NoCmd
    /\ activeprocs = [t \in {"main", "cq"} |-> << >>]
    /\ children = << >>

\* the triples getTransfer has returned with host h as target, in a run
\* where every copy succeeds: each removed one chunk from chunks_needed of h
\* (line 559), but for the triple the scheduler still holds
ReturnedTo(h) ==
    IF h = roothost THEN 0
    ELSE chunkCount - Len(chunks_needed[h])
         + (IF mainPC \in {"acquire", "start"} /\ match.target = h
            THEN 1 ELSE 0)

RECURSIVE ReturnedFrom(_)
ReturnedFrom(h) ==
    IF h >= hostcount THEN 0 ELSE ReturnedTo(h) + ReturnedFrom(h + 1)

\* the scenario watches the scheduler up to its MatchTargets-th triple
MatchCall == ReturnedFrom(0) < MatchTargets /\ Scheduler

\* no target has all MatchChunks chunks before the MatchTargets-th triple, so
\* no Transfer thread of the scenario comes to hostDone
NextMatch ==
    \/ MatchCall
    \/ WorkersDeliver

MatchSpec == InitMatch /\ [][NextMatch]_vars

\* ----------------------------------------------------- derived quantities
Occurrences(s, x) == Cardinality({i \in 1 .. Len(s) : s[i] = x})

\* the chunks split has produced so far
Produced == 1 .. chunkCount

\* every command put on the command queue so far: waiting, held by the
\* consumer, or launched
Enqueued(cmd) ==
    Occurrences(cmdq, cmd)
    + (IF cqCmd = cmd THEN 1 ELSE 0)
    + Cardinality({i \in DOMAIN children : children[i].cmd = cmd})

CatCmd(h) == [kind |-> "cat", host |-> h]

OwnsAll(h) == \A c \in Produced : Contains(chunks_owned[h], c)

\* transfers of chunk c to host h whose copy has not ended yet
InFlight(h, c) ==
    NumThreads({w \in Threads :
                   w.targetindex = h /\ w.chunk = c /\ w.pc = "copy"})

\* ------------------------------------------------------------------ claims

\* C1: for every host the cat command is enqueued at most once in a run.
C1_CatAtMostOnce == \A h \in Hosts : Enqueued(CatCmd(h)) <= 1

\* C2: when the scheduler leaves its while-loop, every host still alive owns
\* every produced chunk.
C2_ExitOnlyWhenComplete ==
    [][(mainPC = "loop" /\ mainPC' = "waitThreads")
          => (\A h \in Hosts : alive'[h] => OwnsAll(h)')]_vars

\* C3: hosts_with_file + deadhosts never exceeds hostcount.
C3_CountersBounded == hosts_with_file + deadhosts <= hostcount

\* C4: when the splitter finishes, every copy exits 0 and no host dies, then
\* under fair scheduling every host comes to own every chunk and the
\* scheduler loop exits.
SchedulerPCs ==
    {"loop", "scan", "lockSeed", "getSlotSeed", "lockTarget", "getSlotTarget",
     "acquire", "start"}

C4_EventuallyExits ==
    <>(split_complete /\ (\A h \in Hosts : OwnsAll(h))
          /\ mainPC \notin SchedulerPCs)

\* C5: no rm child is started before every cat command enqueued in the run
\* has run and exited.
C5_RmAfterCats ==
    (\E i \in DOMAIN children : children[i].cmd.kind = "rm")
        => /\ \A i \in 1 .. Len(cmdq) : cmdq[i].kind # "cat"
           /\ cqCmd.kind # "cat"
           /\ \A i \in DOMAIN children :
                 children[i].cmd.kind = "cat" => children[i].exited

\* C6: every host's transferslots stays within 0 .. max_transfers_per_host.
C6_SlotsInRange ==
    \A h \in Hosts :
        0 <= transferslots[h] /\ transferslots[h] <= max_transfers_per_host

\* C7: after every transfer worker exit the slots of all hosts sum to
\* hostcount * max_transfers_per_host - 2 * (transfers matched, not finished).
RECURSIVE SumSlots(_, _)
SumSlots(slots, h) ==
    IF h >= hostcount THEN 0 ELSE slots[h] + SumSlots(slots, h + 1)

\* transfers matched (getTransfer has returned the triple) and not finished
\* (the Transfer thread has not left threadlist)
Matched ==
    BagCardinality(threadlist)
    + (IF mainPC \in {"acquire", "start"} THEN 1 ELSE 0)

C7_SlotConservation ==
    [][BagCardinality(threadlist') < BagCardinality(threadlist)
          => SumSlots(transferslots', 0)
                = hostcount * max_transfers_per_host - 2 * Matched']_vars

\* C7 as amended: a host that has not been marked dead has
\* max_transfers_per_host minus the getSlot calls on it that no freeSlot has
\* answered yet; the sum law follows when no host is dead and no match or
\* worker stands between its two getSlot or freeSlot calls.
Debits(h) ==
    NumThreads({w \in Threads : w.seedindex = h})
    + NumThreads({w \in Threads :
                     w.targetindex = h /\ w.pc \notin {"lockFreeSeed", "freeSeed"}})
    + (IF match.seed = h
          /\ mainPC \in {"lockTarget", "getSlotTarget", "acquire", "start"}
       THEN 1 ELSE 0)
    + (IF match.target = h /\ mainPC \in {"acquire", "start"} THEN 1 ELSE 0)

BetweenSlotCalls ==
    \/ mainPC \in {"lockTarget", "getSlotTarget"}
    \/ \E w \in Threads : w.pc \in {"lockFreeSeed", "freeSeed"}

C7_SlotsAccounted ==
    /\ \A h \in Hosts :
          alive[h] => transferslots[h] = max_transfers_per_host - Debits(h)
    /\ ((\A h \in Hosts : alive[h]) /\ ~BetweenSlotCalls)
          => SumSlots(transferslots, 0)
                = hostcount * max_transfers_per_host - 2 * Matched

\* C7 witness: one worker has delivered its chunk and exited, another is in
\* flight, and the other host of that transfer has been marked dead.
C7_Witness ==
    \E h \in Hosts : \E c \in Chunks : \E w \in Threads :
        /\ Contains(chunks_owned[h], c)
        /\ h # roothost
        /\ \A v \in Threads : ~(v.targetindex = h /\ v.chunk = c)
        /\ alive[h]
        /\ w.targetindex = h
        /\ ~alive[w.seedindex]
        /\ transferslots[h] < max_transfers_per_host

C10_OriginNeverTarget ==
    /\ match.target # roothost
    /\ \A w \in Threads : w.targetindex # roothost

\* C10 witness: getTransfer returned a triple from a scan in which the origin
\* passed the target test (alive, a free slot).
C10_Witness ==
    /\ mainPC = "getSlotSeed"
    /\ match.chunk # 0
    /\ TargetOk(roothost)

C13_DistinctTargets ==
    ReturnedFrom(0) <= MatchTargets => \A h \in Hosts : ReturnedTo(h) <= 1

\* C14: when a call of update_chunks_needed that follows the production of
\* a chunk returns, every non-origin host has chunk_index = chunkCount =
\* len(roothost.chunks_owned) and holds the new chunk exactly once in its
\* chunks_needed; the origin's chunks_needed is empty.
C14_NeededUpdated ==
    [][(splitPC = "update" /\ splitPC' # "update")
          => /\ \A h \in Hosts \ {roothost} :
                   /\ chunk_index'[h] = chunkCount'
                   /\ chunk_index'[h] = Len(chunks_owned'[roothost])
                   /\ Occurrences(chunks_needed'[h], chunkCount') = 1
             /\ chunks_needed'[roothost] = << >>]_vars

\* C14 witness: the update for the last chunk has returned while the target
\* already owns the first chunk.
C14_Witness ==
    /\ splitPC = "finish"
    /\ chunkCount = MaxChunks
    /\ \E h \in Hosts \ {roothost} :
          /\ chunk_index[h] = chunkCount
          /\ Occurrences(chunks_needed[h], chunkCount) = 1
          /\ Contains(chunks_owned[h], 1)

\* C15: when the host list holds only the origin (hostcount = 1) the
\* scheduler never calls getTransfer, no Transfer thread is ever started (no
\* permit is taken) and no cat command is ever enqueued.
C15_SingleHostIdle ==
    hostcount = 1 =>
        /\ mainPC \notin {"scan", "lockSeed", "getSlotSeed", "lockTarget",
                          "getSlotTarget", "acquire", "start"}
        /\ match = NoMatch
        /\ threadlist = EmptyBag
        /\ threadsema = max_threads
        /\ \A h \in Hosts : Enqueued(CatCmd(h)) = 0

\* C15 witness: with only the origin, main has run to its end while the
\* splitter is still between two chunks.
C15_Witness ==
    /\ hostcount = 1
    /\ mainPC = "done"
    /\ splitPC = "update"
    /\ chunkCount = MaxChunks

\* C16: no cat command and no rm command is enqueued for a host that has
\* been marked dead.
C16_NoCommandForDead ==
    [][\A h \in Hosts : \A k \in {"cat", "rm"} :
          Enqueued([kind |-> k, host |-> h])' > Enqueued([kind |-> k, host |-> h])
              => alive[h]]_vars

\* C16, the cat half alone: no cat command is enqueued for a dead host.
C16_NoCatForDead ==
    [][\A h \in Hosts :
          Enqueued(CatCmd(h))' > Enqueued(CatCmd(h)) => alive[h]]_vars

\* C17: a triple getTransfer returns never names, as seed or as target, a
\* host that setDead has marked dead before the return.
C17_DeadNeverMatched ==
    [][(mainPC = "getSlotTarget" /\ mainPC' = "acquire")
          => (alive[match.seed] /\ alive[match.target])]_vars

\* C18: run against a state, getTransfer returns a triple exactly when the
\* state has one: a seed S, a target T and a chunk c with T alive, a free
\* slot on T, c in T.chunks_needed, S alive, a free slot on S and c in
\* S.chunks_owned; the triple it returns is such a triple, whatever the
\* random start of the seed loop and wherever tindex stands.
Eligible(s, t, c) ==
    /\ alive[t]
    /\ transferslots[t] > 0
    /\ Contains(chunks_needed[t], c)
    /\ alive[s]
    /\ transferslots[s] > 0
    /\ Contains(chunks_owned[s], c)

C18_MatchComplete ==
    \A r \in 0 .. hostcount :
        LET res == getTransfer(r)
        IN  IF \E s \in Hosts : \E t \in Hosts : \E c \in Produced :
                  Eligible(s, t, c)
            THEN res.chunk # 0 /\ Eligible(res.seed, res.target, res.chunk)
            ELSE res.chunk = 0 /\ res.seed = -1 /\ res.target = -1

\* C18 witness: the scheduler is about to call getTransfer in a state that
\* has a triple, with tindex on the target and a failed transfer's worker
\* still probing.
C18_Witness ==
    /\ mainPC = "scan"
    /\ q = 0
    /\ tindex = 1
    /\ \E s \in Hosts : \E t \in Hosts : \E c \in Produced : Eligible(s, t, c)
    /\ \E w \in Threads : w.pc = "probeSeed"

C20_PermitsEqualThreads ==
    /\ BagCardinality(threadlist) <= max_threads
    /\ threadsema + BagCardinality(threadlist) = max_threads

\* C20 as amended: the sum is max_threads except between the scheduler's
\* acquire (line 558) and the start of the thread (line 564), where the
\* permit taken for the thread not yet started makes it max_threads - 1.
C20_PermitsAccounted ==
    /\ threadsema >= 0
    /\ BagCardinality(threadlist) <= max_threads
    /\ threadsema + BagCardinality(threadlist)
          + (IF mainPC = "start" THEN 1 ELSE 0) = max_threads

\* C20 witness: every permit is out: max_threads - 1 threads are running and
\* the scheduler holds the last permit for a transfer it is about to start.
C20_Witness ==
    /\ mainPC = "start"
    /\ threadsema = 0
    /\ BagCardinality(threadlist) = max_threads - 1

\* C21: the cat/rm children launched and not yet exited are never more than
\* max_procs.
Running == {i \in DOMAIN children : ~children[i].exited}

C21_ChildrenBounded == Cardinality(Running) <= max_procs

\* C22: when the consumer thread has terminated, every command that was put
\* has been launched and every child it launched has exited.
C22_DrainedAtExit ==
    cqPC = "done" => cmdq = << >> /\ Running = {}

\* the two halves of C22, each refuted by a run of its own
C22_LaunchedAtExit == cqPC = "done" => cmdq = << >>

C22_ExitedAtExit == cqPC = "done" => Running = {}

Failing(h) ==
    NumThreads({w \in Threads : w.targetindex = h /\ w.pc = "probeTarget"})

\* C24: a copy to a host that exits non-zero raises the host's failcount by
\* one, so that failcount counts the consecutive failed transfers to it.
C24_FailureCounted ==
    [][\A h \in Hosts :
          Failing(h)' > Failing(h) => failcount'[h] = failcount[h] + 1]_vars

\* the locks held, in the order of their acquire calls, thread by thread
HeldLists == {w.held : w \in Threads} \cup {mainHeld}

\* C23: a thread that holds the database's lock together with a host's lock
\* has acquired the database's lock first.
C23_DatabaseFirst ==
    \A held \in HeldLists : \A i, j \in DOMAIN held :
        (held[i] = DBLock /\ held[j] # DBLock) => i < j

\* the order the threads do keep: the host's lock first
C23_HostFirst ==
    \A held \in HeldLists : \A i, j \in DOMAIN held :
        (held[i] = DBLock /\ held[j] # DBLock) => j < i

\* the lock a Transfer thread is blocked at or about to acquire; empty when
\* it is not at an acquire call
Wanted(w) ==
    IF w.pc \in {"lockHostDone", "lockIncTarget", "lockIncSeed"} THEN {DBLock}
    ELSE IF w.pc \in {"lockDeadTarget", "lockFreeTarget"} THEN {w.targetindex}
    ELSE IF w.pc \in {"lockDeadSeed", "lockFreeSeed"} THEN {w.seedindex}
    ELSE {}

Locks == Hosts \cup {DBLock}

\* some thread holds lock a and waits for lock b (the main thread holds no
\* lock when it calls getSlot)
WaitsWhileHolding(a, b) ==
    \E w \in Threads : Contains(w.held, a) /\ b \in Wanted(w)

RECURSIVE WaitChain(_, _, _)
WaitChain(a, b, n) ==
    \/ WaitsWhileHolding(a, b)
    \/ /\ n > 0
       /\ \E c \in Locks : WaitsWhileHolding(a, c) /\ WaitChain(c, b, n - 1)

\* C26: the host locks and the database lock never deadlock: no lock is
\* waited for, directly or through a chain of waiting threads, by a thread
\* that holds it.
C26_NoDeadlock == \A l \in Locks : ~WaitChain(l, l, Cardinality(Locks))

\* C26 witness: a thread inside setDead holds a host's lock and is blocked at
\* the database's lock, which another thread holds.
C26_Witness ==
    \E w \in Threads :
        /\ w.held # << >>
        /\ DBLock \in Wanted(w)
        /\ Locked(DBLock)

====
